---- MODULE Spec2Model ----
(***************************************************************************)
(* Detection decoding of YOLOv2.predict (src/model/YOLOv2.py) and the      *)
(* batch loop of evaluate._main_ (src/evaluate.py).                        *)
(*                                                                         *)
(* Numbers.  Tensor values are exact rationals <<n, d>> (d > 0, lowest     *)
(* terms).  A raw network output ("logit") is an integer k standing for    *)
(* the real number k * ln 3, so that exp and sigmoid have rational values: *)
(* exp(k ln 3) = 3^k and sigmoid(k ln 3) = 3^k / (1 + 3^k).  The tensor is *)
(* float32: for k >= 17 (x > 18.6) 1 + exp(-x) rounds to 1, and for        *)
(* k <= -95 (x < -104.3) exp(x) is below the smallest float32, so          *)
(* K.sigmoid returns exactly 1.0 and exactly 0.0 there.                    *)
(***************************************************************************)
EXTENDS Integers, Sequences, FiniteSets, TLC

VARIABLES
    pc,               \* position of YOLOv2.predict: the stage last completed
    stages,           \* the stages completed so far, in order (history)
    prediction,       \* raw tensor, reshaped [GRID_H, GRID_W, N_ANCHORS] -> raw vector
    GRID_H, GRID_W,   \* prediction.shape[1:3]
    N_ANCHORS,        \* cfg.N_ANCHORS
    mode,             \* argument mode of predict
    score_threshold,  \* argument score_threshold
    iou_threshold,    \* argument iou_threshold
    height, width,    \* img.shape
    c_xy,             \* grid-cell map: cell -> <<cx, cy>>
    box_xy,           \* dense tensor: cell -> decoded centre <<x, y>>
    dense_boxes,      \* dense tensor: cell -> <<y1, x1, y2, x2>> (normalised)
    box_classes,      \* dense tensor: cell -> argmax of box_scores
    box_class_scores, \* dense tensor: cell -> max of box_scores
    kept,             \* history: the cell each row of boxes/scores/classes came from
    masked_boxes,     \* boxes after tf.boolean_mask, before rescaling
    nms_input,        \* history: number of rows handed to non_max_suppression
    boxes, scores, classes,   \* the three arrays of predict, row-aligned
    instances,        \* evaluate: testing_instances[1:], one kind per entry
    next_instance,    \* evaluate: index of the entry the loop is at
    run,              \* evaluate: "running", "finished" or "aborted"
    rows,             \* evaluate: detections.csv, as <<entry index, detection>>
    processed         \* evaluate (history): the entries predict has run on

predict_vars == <<pc, stages, prediction, GRID_H, GRID_W, N_ANCHORS, mode,
                  score_threshold, iou_threshold, height, width, c_xy,
                  box_xy, dense_boxes, box_classes, box_class_scores, kept,
                  masked_boxes, nms_input, boxes, scores, classes>>
batch_vars == <<instances, next_instance, run, rows, processed>>
vars == <<predict_vars, batch_vars>>

(***************************************************************************)
(* Bounds of the model.                                                    *)
(***************************************************************************)
MaxGridH == 3
MaxGridW == 2
MaxAnchors == 2
MaxInstances == 4
MaxDetections == 2

(***************************************************************************)
(* Exact rational arithmetic.                                              *)
(***************************************************************************)
RECURSIVE GCD(_, _)
GCD(a, b) == IF b = 0 THEN a ELSE GCD(b, a % b)

Abs(n) == IF n < 0 THEN -n ELSE n

Rat(n, d) ==
    IF n = 0 THEN <<0, 1>>
    ELSE LET g == GCD(Abs(n), d) IN <<n \div g, d \div g>>

RInt(n) == <<n, 1>>
RAdd(a, b) == Rat(a[1] * b[2] + b[1] * a[2], a[2] * b[2])
RSub(a, b) == Rat(a[1] * b[2] - b[1] * a[2], a[2] * b[2])
RMul(a, b) == Rat(a[1] * b[1], a[2] * b[2])
\* division by a positive rational
RDiv(a, b) == Rat(a[1] * b[2], a[2] * b[1])
RLess(a, b) == a[1] * b[2] < b[1] * a[2]
RLeq(a, b) == a[1] * b[2] <= b[1] * a[2]
RMax(a, b) == IF RLess(a, b) THEN b ELSE a
RMin(a, b) == IF RLess(b, a) THEN b ELSE a

RECURSIVE Pow3(_)
Pow3(k) == IF k = 0 THEN 1 ELSE 3 * Pow3(k - 1)

\* K.exp on a logit k (k * ln 3): 3^k.
Exp(k) == IF k >= 0 THEN RInt(Pow3(k)) ELSE Rat(1, Pow3(-k))

\* K.sigmoid on a logit: 1 / (1 + exp(-x)), in float32.
Sigmoid(k) ==
    IF k >= 17 THEN RInt(1)
    ELSE IF k <= -95 THEN RInt(0)
    ELSE RDiv(RInt(1), RAdd(RInt(1), Exp(-k)))

\* K.softmax over the last axis: logits is a sequence, the result a sequence.
RECURSIVE SumExp(_)
SumExp(logits) ==
    IF logits = <<>> THEN RInt(0)
    ELSE RAdd(Exp(Head(logits)), SumExp(Tail(logits)))

Softmax(logits) ==
    [p \in 1..Len(logits) |-> RDiv(Exp(logits[p]), SumExp(logits))]

(***************************************************************************)
(* Configuration (module cfg) and inputs.                                  *)
(***************************************************************************)
\* cfg.HIER_TREE.tree_dict: node id -> ordered children ids; -1 is the root.
\* The root has 2 children, each with 2 leaf children; ids are given in
\* tree order, the root's children first.
HIER_TREE ==
    [n \in {-1, 0, 1} |->
        IF n = -1 THEN <<0, 1>> ELSE IF n = 0 THEN <<2, 3>> ELSE <<4, 5>>]

\* cfg.N_CLASSES: one logit per node of the tree below the root.
N_CLASSES == Len(HIER_TREE[-1]) + Len(HIER_TREE[0]) + Len(HIER_TREE[1])

\* cfg.ANCHORS: anchor k (0-based) as <<width, height>> in grid cells.
ANCHORS(k) == <<RInt(k + 1), RInt(((k + 1) % 2) + 1)>>

\* A raw vector of the last axis: [tx, ty, tw, th, to, class logits 0..5].
RawVector(tx, ty, tw, th, to, cls) ==
    [tx |-> tx, ty |-> ty, tw |-> tw, th |-> th, to |-> to,
     cls |-> [c \in 0..(N_CLASSES - 1) |-> cls[c + 1]]]

\* The raw vectors the tensors are built from:
\*   1  all zero;
\*   2  objectness 81/82 (about 0.99), class logits with dominant entries;
\*   3  objectness 0, centre logits at the float32 saturation points.
Palette ==
    << RawVector(0, 0, 0, 0, 0, <<0, 0, 0, 0, 0, 0>>),
       RawVector(1, -1, 1, 0, 4, <<0, 2, 0, 0, 0, 3>>),
       RawVector(20, -100, -1, 1, -100, <<1, 0, 0, 1, 0, 0>>) >>

\* Tensors repeat a seed of this many raw vectors along the flattened
\* [GRID_H, GRID_W, N_ANCHORS] index.
SeedIndex == 0..2
Seeds == [SeedIndex -> 1..Len(Palette)]

Cells(H, W, A) == (0..(H - 1)) \X (0..(W - 1)) \X (0..(A - 1))

\* Row-major position (0-based) of cell <<i, j, k>> in a [H, W, A] tensor.
FlatIndex(c, W, A) == (c[1] * W + c[2]) * A + c[3]

\* The argument combinations of predict that are explored:
\* <<score_threshold, iou_threshold, height, width>>.
Arguments ==
    { <<Rat(1, 2), Rat(1, 2), 200, 100>>,
      <<Rat(1, 8), Rat(1, 4), 100, 300>> }

NoValue == <<>>

BatchIdle ==
    /\ instances = <<>>
    /\ next_instance = 1
    /\ run = "finished"
    /\ rows = <<>>
    /\ processed = {}

Init ==
    /\ pc = "Idle"
    /\ stages = <<"Idle">>
    /\ GRID_H \in 1..MaxGridH
    /\ GRID_W \in 1..MaxGridW
    /\ N_ANCHORS \in 1..MaxAnchors
    /\ \E seed \in Seeds :
         prediction =
             [c \in Cells(GRID_H, GRID_W, N_ANCHORS) |->
                 Palette[seed[FlatIndex(c, GRID_W, N_ANCHORS)
                              % Cardinality(SeedIndex)]]]
    /\ mode \in {0, 1, 2}
    /\ \E a \in Arguments :
         /\ score_threshold = a[1]
         /\ iou_threshold = a[2]
         /\ height = a[3]
         /\ width = a[4]
    /\ c_xy = NoValue
    /\ box_xy = NoValue
    /\ dense_boxes = NoValue
    /\ box_classes = NoValue
    /\ box_class_scores = NoValue
    /\ kept = NoValue
    /\ masked_boxes = NoValue
    /\ nms_input = 0
    /\ boxes = NoValue
    /\ scores = NoValue
    /\ classes = NoValue
    /\ BatchIdle

(***************************************************************************)
(* Geometry and anchor transform, YOLOv2.predict lines 79-110.             *)
(***************************************************************************)
\* K.arange(0, stop=n) as a flat tensor (1-based sequence).
Arange(n) == [p \in 1..n |-> p - 1]

\* K.tile(x, [reps]) of a rank-1 tensor: the whole tensor repeated.
Tile(x, reps) == [p \in 1..(Len(x) * reps) |-> x[((p - 1) % Len(x)) + 1]]

\* Lines 87-89: reshape to [-1, 1], K.tile(., [1, reps]), reshape to [-1]:
\* every element repeated reps times in a row.
TileColumns(x, reps) ==
    [p \in 1..(Len(x) * reps) |-> x[((p - 1) \div reps) + 1]]

\* K.reshape(flat, [-1, H, W, 1]) read at row i, column j.
Reshaped(flat, W, i, j) == flat[i * W + j + 1]

\* Lines 82-84.
GridCx(H, W) == Tile(Arange(W), H)

\* Lines 86-90.
GridCyWrongTile(H, W) == Tile(Arange(H), W)
GridCy(H, W) == TileColumns(Arange(H), W)

\* Lines 92-93: c_xy = stack([cx, cy], -1), broadcast over the anchors.
GridMap(H, W, A) ==
    [c \in Cells(H, W, A) |->
        << Reshaped(GridCx(H, W), W, c[1], c[2]),
           Reshaped(GridCy(H, W), W, c[1], c[2]) >>]

\* Lines 98 and 104: box_xy = (sigmoid(t_xy) + c_xy) / [GRID_W, GRID_H].
BoxXY(raw, cxy, H, W) ==
    << RDiv(RAdd(Sigmoid(raw.tx), RInt(cxy[1])), RInt(W)),
       RDiv(RAdd(Sigmoid(raw.ty), RInt(cxy[2])), RInt(H)) >>

\* Lines 99 and 105: box_wh = exp(t_wh) * anchor / [GRID_W, GRID_H].
BoxWH(raw, k, H, W) ==
    << RDiv(RMul(Exp(raw.tw), ANCHORS(k)[1]), RInt(W)),
       RDiv(RMul(Exp(raw.th), ANCHORS(k)[2]), RInt(H)) >>

\* Lines 106-110: corners, concatenated as <<y1, x1, y2, x2>>.
Corners(xy, wh) ==
    LET half == <<RDiv(wh[1], RInt(2)), RDiv(wh[2], RInt(2))>>
        mins == <<RSub(xy[1], half[1]), RSub(xy[2], half[2])>>
        maxes == <<RAdd(xy[1], half[1]), RAdd(xy[2], half[2])>>
    IN  <<mins[2], mins[1], maxes[2], maxes[1]>>

\* The stage whose output a stage consumes, by the data flow of predict:
\* boxes * image_dims (line 142) is the input of non_max_suppression
\* (line 144).
PredecessorSuppressFirst(stage) ==
    CASE stage = "GeometryDecoded" -> "Idle"
      [] stage = "ScoresResolved" -> "GeometryDecoded"
      [] stage = "Filtered" -> "ScoresResolved"
      [] stage = "Suppressed" -> "Filtered"
      [] stage = "Rescaled" -> "Suppressed"
      [] stage = "Done" -> "Rescaled"
Predecessor(stage) ==
    CASE stage = "GeometryDecoded" -> "Idle"
      [] stage = "ScoresResolved" -> "GeometryDecoded"
      [] stage = "Filtered" -> "ScoresResolved"
      [] stage = "Rescaled" -> "Filtered"
      [] stage = "Suppressed" -> "Rescaled"
      [] stage = "Done" -> "Suppressed"

\* A stage runs when the stage it consumes is the last one completed.
Advance(stage) ==
    /\ pc = Predecessor(stage)
    /\ pc' = stage
    /\ stages' = Append(stages, stage)

DecodeGeometry ==
    /\ Advance("GeometryDecoded")
    /\ c_xy' = GridMap(GRID_H, GRID_W, N_ANCHORS)
    /\ box_xy' = [c \in DOMAIN prediction |->
                     BoxXY(prediction[c], c_xy'[c], GRID_H, GRID_W)]
    /\ dense_boxes' = [c \in DOMAIN prediction |->
                          Corners(box_xy'[c],
                                  BoxWH(prediction[c], c[3], GRID_H, GRID_W))]
    /\ UNCHANGED <<prediction, GRID_H, GRID_W, N_ANCHORS, mode, score_threshold,
                   iou_threshold, height, width, box_classes,
                   box_class_scores, kept, masked_boxes, nms_input, boxes,
                   scores, classes>>
    /\ UNCHANGED batch_vars

(***************************************************************************)
(* Class score resolver, lines 113-130.                                    *)
(***************************************************************************)
\* Where a kernel may return either of several equal entries (tf.argmax
\* documents that on ties the index returned is not guaranteed; the sort of
\* non_max_suppression compares scores only), the model lets it return the
\* one of lowest or the one of highest index.
TieRules == {"lowest", "highest"}

\* x[..., lo:hi] on the class axis (0-based, hi exclusive), as a sequence.
Slice(x, lo, hi) == [p \in 1..(hi - lo) |-> x[lo + p - 1]]

\* box_confidence * x, element by element.
Scale(conf, x) == [p \in 1..Len(x) |-> RMul(conf, x[p])]

\* Lines 117-118 (and 121-122): objectness times the softmax over the
\* logits of the root's children.
ParentScores(raw) ==
    LET id == HIER_TREE[-1][1]
    IN  Scale(Sigmoid(raw.to),
              Softmax(Slice(raw.cls, id, id + Len(HIER_TREE[-1]))))

\* Lines 123-126: the score vector of one child node of the root.
NodeScores(raw, node) ==
    LET id == HIER_TREE[node][1]
    IN  Scale(ParentScores(raw)[node + 1],
              Softmax(Slice(raw.cls, id, id + Len(HIER_TREE[node]))))

\* Line 127: tf.concat over the root's children, in order.
RECURSIVE ConcatNodes(_, _)
ConcatNodes(raw, nodes) ==
    IF nodes = <<>> THEN <<>>
    ELSE NodeScores(raw, Head(nodes)) \o ConcatNodes(raw, Tail(nodes))

\* Lines 113-127: box_scores of one cell, as a sequence over the last axis.
BoxScores(raw, m) ==
    IF m = 0 THEN <<Sigmoid(raw.to)>>
    ELSE IF m = 1 THEN ParentScores(raw)
    ELSE ConcatNodes(raw, HIER_TREE[-1])

\* Line 130: K.max over the last axis.
Max(x) == CHOOSE v \in {x[p] : p \in 1..Len(x)} :
              \A q \in 1..Len(x) : RLeq(x[q], v)

\* Line 129: K.argmax over the last axis (0-based index).
ArgMax(x, rule) ==
    LET best == {p \in 1..Len(x) : x[p] = Max(x)}
    IN  (CHOOSE p \in best :
            \A q \in best : IF rule = "lowest" THEN p <= q ELSE p >= q) - 1

ResolveScores ==
    /\ Advance("ScoresResolved")
    /\ \E rule \in TieRules :
         box_classes' = [c \in DOMAIN prediction |->
                            ArgMax(BoxScores(prediction[c], mode), rule)]
    /\ box_class_scores' = [c \in DOMAIN prediction |->
                               Max(BoxScores(prediction[c], mode))]
    /\ UNCHANGED <<prediction, GRID_H, GRID_W, N_ANCHORS, mode, score_threshold,
                   iou_threshold, height, width, c_xy, box_xy, dense_boxes,
                   kept, masked_boxes, nms_input, boxes, scores, classes>>
    /\ UNCHANGED batch_vars

(***************************************************************************)
(* Detection filter, lines 131-135.                                        *)
(***************************************************************************)
\* Line 131: prediction_mask = (box_class_scores >= score_threshold).
PredictionMaskStrict(class_scores, threshold) ==
    [c \in DOMAIN class_scores |-> RLess(threshold, class_scores[c])]
PredictionMask(class_scores, threshold) ==
    [c \in DOMAIN class_scores |-> RLeq(threshold, class_scores[c])]

\* The cell at row-major position n (0-based) of a [H, W, A] tensor.
CellAt(n, W, A) == <<(n \div A) \div W, (n \div A) % W, n % A>>

\* tf.boolean_mask(tensor, mask): the entries whose mask is true, in
\* row-major order, from position n on.
RECURSIVE BooleanMaskFrom(_, _, _, _, _, _)
BooleanMaskFrom(tensor, mask, n, H, W, A) ==
    IF n >= H * W * A THEN <<>>
    ELSE LET c == CellAt(n, W, A)
             rest == BooleanMaskFrom(tensor, mask, n + 1, H, W, A)
         IN  IF mask[c] THEN <<tensor[c]>> \o rest ELSE rest

BooleanMask(tensor, mask, H, W, A) == BooleanMaskFrom(tensor, mask, 0, H, W, A)

Filter ==
    /\ Advance("Filtered")
    /\ LET mask == PredictionMask(box_class_scores, score_threshold)
           cells == [c \in DOMAIN prediction |-> c]
       IN  /\ boxes' = BooleanMask(dense_boxes, mask, GRID_H, GRID_W, N_ANCHORS)
           /\ scores' = BooleanMask(box_class_scores, mask, GRID_H, GRID_W, N_ANCHORS)
           /\ classes' = BooleanMask(box_classes, mask, GRID_H, GRID_W, N_ANCHORS)
           /\ kept' = BooleanMask(cells, mask, GRID_H, GRID_W, N_ANCHORS)
    /\ masked_boxes' = boxes'
    /\ UNCHANGED <<prediction, GRID_H, GRID_W, N_ANCHORS, mode, score_threshold,
                   iou_threshold, height, width, c_xy, box_xy, dense_boxes,
                   box_classes, box_class_scores, nms_input>>
    /\ UNCHANGED batch_vars

(***************************************************************************)
(* Coordinate rescaler, lines 137-142.                                     *)
(***************************************************************************)
\* Lines 140-142: box * [height, width, height, width].
ScaleBoxSwapped(box, h, w) ==
    << RMul(box[1], RInt(w)), RMul(box[2], RInt(h)),
       RMul(box[3], RInt(w)), RMul(box[4], RInt(h)) >>
ScaleBox(box, h, w) ==
    << RMul(box[1], RInt(h)), RMul(box[2], RInt(w)),
       RMul(box[3], RInt(h)), RMul(box[4], RInt(w)) >>

Rescale ==
    /\ Advance("Rescaled")
    /\ boxes' = [r \in 1..Len(boxes) |-> ScaleBox(boxes[r], height, width)]
    /\ UNCHANGED <<prediction, GRID_H, GRID_W, N_ANCHORS, mode, score_threshold,
                   iou_threshold, height, width, c_xy, box_xy, dense_boxes,
                   box_classes, box_class_scores, kept, masked_boxes,
                   nms_input, scores, classes>>
    /\ UNCHANGED batch_vars

(***************************************************************************)
(* Non-maximum suppression, lines 144-147.                                 *)
(***************************************************************************)
\* Line 144: tf.Variable(10), the max_output_size of non_max_suppression.
MaxOutputSize == 10

Area(b) ==
    RMul(RSub(RMax(b[1], b[3]), RMin(b[1], b[3])),
         RSub(RMax(b[2], b[4]), RMin(b[2], b[4])))

Intersection(a, b) ==
    LET ymin == RMax(RMin(a[1], a[3]), RMin(b[1], b[3]))
        xmin == RMax(RMin(a[2], a[4]), RMin(b[2], b[4]))
        ymax == RMin(RMax(a[1], a[3]), RMax(b[1], b[3]))
        xmax == RMin(RMax(a[2], a[4]), RMax(b[2], b[4]))
    IN  RMul(RMax(RSub(ymax, ymin), RInt(0)), RMax(RSub(xmax, xmin), RInt(0)))

\* inter / (area_a + area_b - inter) > threshold; a box without area
\* overlaps nothing.
RatioExceeds(area_a, area_b, inter, threshold) ==
    /\ RLess(RInt(0), inter)
    /\ RLess(RInt(0), area_a)
    /\ RLess(RInt(0), area_b)
    /\ RLess(RMul(threshold, RSub(RAdd(area_a, area_b), inter)), inter)

\* IoU(a, b) > threshold, for boxes <<y1, x1, y2, x2>>.
IoUExceeds(a, b, threshold) ==
    RatioExceeds(Area(a), Area(b), Intersection(a, b), threshold)

\* Whether row q comes before row r in the sorted order: a higher score
\* first, equal scores by the tie rule.
Before(score_seq, q, r, rule) ==
    \/ RLess(score_seq[r], score_seq[q])
    \/ /\ score_seq[q] = score_seq[r]
       /\ IF rule = "lowest" THEN q < r ELSE q > r

\* The rows of score_seq sorted by descending score.
ByScore(score_seq, rule) ==
    LET n == Len(score_seq)
        rank == [r \in 1..n |->
                    Cardinality({q \in 1..n : Before(score_seq, q, r, rule)}) + 1]
    IN  [p \in 1..n |-> CHOOSE r \in 1..n : rank[r] = p]

\* The greedy loop: a candidate is selected unless its IoU with a row
\* already selected exceeds the threshold; it ends at max_output_size rows.
RECURSIVE GreedyUnbounded(_, _, _, _, _)
GreedyUnbounded(box_seq, order, selected, max_output_size, threshold) ==
    IF order = <<>> THEN selected
    ELSE LET r == Head(order)
             suppressed == \E q \in 1..Len(selected) :
                               IoUExceeds(box_seq[r], box_seq[selected[q]], threshold)
         IN  GreedyUnbounded(box_seq, Tail(order),
                             IF suppressed THEN selected ELSE Append(selected, r),
                             max_output_size, threshold)

RECURSIVE GreedyKeepAll(_, _, _, _, _)
GreedyKeepAll(box_seq, order, selected, max_output_size, threshold) ==
    IF order = <<>> \/ Len(selected) >= max_output_size THEN selected
    ELSE GreedyKeepAll(box_seq, Tail(order), Append(selected, Head(order)),
                       max_output_size, threshold)

RECURSIVE Greedy(_, _, _, _, _)
Greedy(box_seq, order, selected, max_output_size, threshold) ==
    IF order = <<>> \/ Len(selected) >= max_output_size THEN selected
    ELSE LET r == Head(order)
             suppressed == \E q \in 1..Len(selected) :
                               IoUExceeds(box_seq[r], box_seq[selected[q]], threshold)
         IN  Greedy(box_seq, Tail(order),
                    IF suppressed THEN selected ELSE Append(selected, r),
                    max_output_size, threshold)

\* tf.image.non_max_suppression(boxes, scores, max_output_size, iou_threshold):
\* the selected row indices (1-based here), by descending score.
NonMaxSuppression(box_seq, score_seq, max_output_size, threshold, rule) ==
    Greedy(box_seq, ByScore(score_seq, rule), <<>>,
           max_output_size, threshold)

\* K.gather(x, indices).
Gather(x, indices) == [p \in 1..Len(indices) |-> x[indices[p]]]

Suppress ==
    /\ Advance("Suppressed")
    /\ nms_input' = Len(boxes)
    /\ \E rule \in TieRules :
         \E nms_index \in {NonMaxSuppression(boxes, scores, MaxOutputSize,
                                              iou_threshold, rule)} :
             /\ boxes' = Gather(boxes, nms_index)
             /\ scores' = Gather(scores, nms_index)
             /\ classes' = Gather(classes, nms_index)
             /\ kept' = Gather(kept, nms_index)
             /\ masked_boxes' = Gather(masked_boxes, nms_index)
    /\ UNCHANGED <<prediction, GRID_H, GRID_W, N_ANCHORS, mode, score_threshold,
                   iou_threshold, height, width, c_xy, box_xy, dense_boxes,
                   box_classes, box_class_scores>>
    /\ UNCHANGED batch_vars

(***************************************************************************)
(* Evaluation and class-id offset, lines 149-160.                          *)
(***************************************************************************)
\* Lines 155-158: what is added to every class id.
ClassOffsetNone(m) == 0
ClassOffset(m) ==
    IF m = 0 THEN -1
    ELSE IF m = 2 THEN Len(HIER_TREE[-1])
    ELSE 0

Finish ==
    /\ Advance("Done")
    /\ classes' = [r \in 1..Len(classes) |-> classes[r] + ClassOffset(mode)]
    /\ UNCHANGED <<prediction, GRID_H, GRID_W, N_ANCHORS, mode, score_threshold,
                   iou_threshold, height, width, c_xy, box_xy, dense_boxes,
                   box_classes, box_class_scores, kept, masked_boxes,
                   nms_input, boxes, scores>>
    /\ UNCHANGED batch_vars

Next ==
    \/ DecodeGeometry
    \/ ResolveScores
    \/ Filter
    \/ Rescale
    \/ Suppress
    \/ Finish

Spec == Init /\ [][Next]_vars

(***************************************************************************)
(* The batch loop of evaluate._main_, lines 52-81.                         *)
(***************************************************************************)
\* What instance[0] names: no file, a file cv2.imread cannot decode (it
\* returns None), or an image.
InstanceKinds == {"missing", "undecodable", "image"}

RECURSIVE SeqsUpTo(_, _)
SeqsUpTo(S, n) ==
    IF n = 0 THEN {<<>>}
    ELSE LET shorter == SeqsUpTo(S, n - 1)
         IN  shorter \cup {Append(q, x) : q \in shorter, x \in S}

PredictIdle ==
    /\ pc = "Idle"
    /\ stages = <<"Idle">>
    /\ GRID_H = 1
    /\ GRID_W = 1
    /\ N_ANCHORS = 1
    /\ prediction = [c \in Cells(1, 1, 1) |-> Palette[1]]
    /\ mode = 0
    /\ score_threshold = Rat(1, 2)
    /\ iou_threshold = Rat(1, 2)
    /\ height = 100
    /\ width = 100
    /\ c_xy = NoValue
    /\ box_xy = NoValue
    /\ dense_boxes = NoValue
    /\ box_classes = NoValue
    /\ box_class_scores = NoValue
    /\ kept = NoValue
    /\ masked_boxes = NoValue
    /\ nms_input = 0
    /\ boxes = NoValue
    /\ scores = NoValue
    /\ classes = NoValue

InitBatch ==
    /\ PredictIdle
    /\ instances \in SeqsUpTo(InstanceKinds, MaxInstances)
    /\ next_instance = 1
    /\ run = "running"
    /\ rows = <<>>
    /\ processed = {}

\* Lines 54-55: os.path.isfile(img_path) is false: continue.
SkipMissing ==
    /\ run = "running"
    /\ next_instance <= Len(instances)
    /\ instances[next_instance] = "missing"
    /\ next_instance' = next_instance + 1
    /\ UNCHANGED <<instances, run, rows, processed>>
    /\ UNCHANGED predict_vars

\* Line 56: cv2.imread returns None and cv2.cvtColor(None, ...) raises; no
\* handler encloses the loop body, so _main_ ends with the exception.
RaiseOnUndecodable ==
    /\ run = "running"
    /\ next_instance <= Len(instances)
    /\ instances[next_instance] = "undecodable"
    /\ run' = "aborted"
    /\ UNCHANGED <<instances, next_instance, rows, processed>>
    /\ UNCHANGED predict_vars

\* Lines 56-81: predict returns n detections; one row is written for each.
ProcessImage ==
    /\ run = "running"
    /\ next_instance <= Len(instances)
    /\ instances[next_instance] = "image"
    /\ \E n \in 0..MaxDetections :
         rows' = rows \o [d \in 1..n |-> <<next_instance, d>>]
    /\ processed' = processed \cup {next_instance}
    /\ next_instance' = next_instance + 1
    /\ UNCHANGED <<instances, run>>
    /\ UNCHANGED predict_vars

\* Line 52: the for loop is exhausted.
EndOfLoop ==
    /\ run = "running"
    /\ next_instance > Len(instances)
    /\ run' = "finished"
    /\ UNCHANGED <<instances, next_instance, rows, processed>>
    /\ UNCHANGED predict_vars

NextBatch ==
    \/ SkipMissing
    \/ RaiseOnUndecodable
    \/ ProcessImage
    \/ EndOfLoop

SpecBatch == InitBatch /\ [][NextBatch]_vars

(***************************************************************************)
(* Properties.                                                             *)
(***************************************************************************)
AfterNMS == pc \in {"Suppressed", "Done"}

\* C1: after the NMS step no two distinct surviving boxes have an
\* Intersection-over-Union greater than iou_threshold.
C1_NoOverlapAfterNMS ==
    AfterNMS =>
        \A p, q \in 1..Len(boxes) :
            p # q => ~IoUExceeds(boxes[p], boxes[q], iou_threshold)

\* NMS has discarded a candidate for its overlap and kept several others.
C1_Witness ==
    /\ pc = "Suppressed"
    /\ Len(boxes) >= 2
    /\ Len(boxes) < nms_input
    /\ nms_input <= MaxOutputSize

\* C2 as claimed: NMS emits at most as many detections as it was given, and
\* it is given at most max_output_size candidates.
C2_InputWithinCap ==
    AfterNMS => Len(boxes) <= nms_input /\ nms_input <= MaxOutputSize

\* C2 as amended: NMS emits at most as many detections as it was given and
\* at most max_output_size; the number it is given is not bounded by the cap.
C2_OutputWithinInputAndCap ==
    AfterNMS => Len(boxes) <= nms_input /\ Len(boxes) <= MaxOutputSize

\* More candidates than the cap reach NMS and the cap cuts the output.
C2_Witness ==
    /\ pc = "Suppressed"
    /\ nms_input > MaxOutputSize
    /\ Len(boxes) = MaxOutputSize

ZeroTensor == \A c \in DOMAIN prediction : prediction[c] = Palette[1]

\* C3: an all-zero raw tensor with score threshold 0.5 yields no boxes, no
\* scores and no classes.
C3_ZeroTensorYieldsEmpty ==
    (pc = "Done" /\ ZeroTensor /\ score_threshold = Rat(1, 2)) =>
        Len(boxes) = 0 /\ Len(scores) = 0 /\ Len(classes) = 0

\* C4: when the batch loop has ended, every entry that names a valid image
\* has been processed, whatever the entries before it name.
C4_ValidEntriesProcessed ==
    run # "running" =>
        \A i \in 1..Len(instances) : instances[i] = "image" => i \in processed

Half(a, b) == RDiv(RAdd(a, b), RInt(2))

\* C5: rescaling multiplies the y coordinates of every box by the image
\* height and the x coordinates by the image width, so the pixel box is
\* centred on the decoded centre scaled by (width, height); and the box
\* (x1, y1, x2, y2) = (0.5, 0.5, 0.6, 0.6) with height 200 and width 100
\* becomes (50, 100, 60, 120).
C5_RescaleByImageSize ==
    /\ pc \in {"Rescaled", "Suppressed", "Done"} =>
         /\ Len(boxes) = Len(masked_boxes)
         /\ \A r \in 1..Len(boxes) :
              /\ boxes[r][1] = RMul(masked_boxes[r][1], RInt(height))
              /\ boxes[r][2] = RMul(masked_boxes[r][2], RInt(width))
              /\ boxes[r][3] = RMul(masked_boxes[r][3], RInt(height))
              /\ boxes[r][4] = RMul(masked_boxes[r][4], RInt(width))
              /\ Half(boxes[r][2], boxes[r][4])
                     = RMul(box_xy[kept[r]][1], RInt(width))
              /\ Half(boxes[r][1], boxes[r][3])
                     = RMul(box_xy[kept[r]][2], RInt(height))
    /\ ScaleBox(<<Rat(1, 2), Rat(1, 2), Rat(3, 5), Rat(3, 5)>>, 200, 100)
           = <<RInt(100), RInt(50), RInt(120), RInt(60)>>

\* Boxes of an image that is not square have been rescaled.
C5_Witness ==
    /\ pc = "Rescaled"
    /\ Len(boxes) >= 2
    /\ height = 200
    /\ width = 100

\* C6: in flat mode every detection's class id is the index, in
\* [0, N_CLASSES), of the largest class score of its candidate, and its
\* score is the objectness times that class score.
C6_FlatClassIsArgmax ==
    (pc = "Done" /\ mode = 0) =>
        \A r \in 1..Len(classes) :
            LET raw == prediction[kept[r]]
                probs == Softmax(Slice(raw.cls, 0, N_CLASSES))
            IN  /\ classes[r] \in 0..(N_CLASSES - 1)
                /\ probs[classes[r] + 1] = Max(probs)
                /\ scores[r] = RMul(Sigmoid(raw.to), Max(probs))

UniformLogits(raw) == \A c \in DOMAIN raw.cls : raw.cls[c] = raw.cls[0]

\* The leaf position (0-based) in the concatenated score vectors -> node id.
LeafIds == {HIER_TREE[n][p] : n \in {0, 1}, p \in 1..2}

IsPrefix(s, t) == Len(s) <= Len(t) /\ \A p \in 1..Len(s) : s[p] = t[p]

\* C8 as claimed: the stages complete in the order Idle, GeometryDecoded,
\* ScoresResolved, Filtered, Suppressed, Rescaled, Done.
C8_SuppressedBeforeRescaled ==
    IsPrefix(stages, <<"Idle", "GeometryDecoded", "ScoresResolved", "Filtered",
                       "Suppressed", "Rescaled", "Done">>)

\* C8 as amended: the stages complete in the order Idle, GeometryDecoded,
\* ScoresResolved, Filtered, Rescaled, Suppressed, Done: NMS runs on the
\* boxes already rescaled to pixels.
C8_RescaledBeforeSuppressed ==
    /\ IsPrefix(stages, <<"Idle", "GeometryDecoded", "ScoresResolved", "Filtered",
                          "Rescaled", "Suppressed", "Done">>)
    /\ pc = stages[Len(stages)]

\* A decode with detections has run to its end.
C8_Witness == pc = "Done" /\ Len(stages) = 7 /\ Len(boxes) >= 1

Filtered == pc \in {"Filtered", "Rescaled", "Suppressed", "Done"}

\* C9: the filter keeps exactly the candidates whose best class score is
\* >= score_threshold, and at every row the box, the score and the class id
\* come from the same (cell, anchor) candidate, also after the NMS gather.
C9_FilterKeepsAlignedRows ==
    Filtered =>
        /\ Len(boxes) = Len(kept)
        /\ Len(scores) = Len(kept)
        /\ Len(classes) = Len(kept)
        /\ Len(masked_boxes) = Len(kept)
        /\ \A p, q \in 1..Len(kept) : p # q => kept[p] # kept[q]
        /\ \A r \in 1..Len(kept) :
             /\ RLeq(score_threshold, box_class_scores[kept[r]])
             /\ masked_boxes[r] = dense_boxes[kept[r]]
             /\ boxes[r] = IF pc = "Filtered" THEN dense_boxes[kept[r]]
                           ELSE ScaleBox(dense_boxes[kept[r]], height, width)
             /\ scores[r] = box_class_scores[kept[r]]
             /\ classes[r] = box_classes[kept[r]]
                             + (IF pc = "Done" THEN ClassOffset(mode) ELSE 0)
        /\ pc \in {"Filtered", "Rescaled"} =>
             \A c \in DOMAIN prediction :
                 RLeq(score_threshold, box_class_scores[c]) =>
                     \E r \in 1..Len(kept) : kept[r] = c

\* The filter has dropped a candidate, has kept one whose score equals the
\* threshold, and NMS has then dropped one of the kept.
C9_Witness ==
    /\ pc = "Suppressed"
    /\ Len(kept) >= 2
    /\ Len(kept) < nms_input
    /\ nms_input < Cardinality(DOMAIN prediction)
    /\ \E r \in 1..Len(kept) : box_class_scores[kept[r]] = score_threshold

\* C10 as claimed: the cell in row i and column j has offset (x = j, y = i)
\* and every decoded centre lies strictly inside its cell.
C10_CentreStrictlyInsideCell ==
    pc # "Idle" =>
        \A c \in DOMAIN prediction :
            /\ c_xy[c] = <<c[2], c[1]>>
            /\ RLess(Rat(c[2], GRID_W), box_xy[c][1])
            /\ RLess(box_xy[c][1], Rat(c[2] + 1, GRID_W))
            /\ RLess(Rat(c[1], GRID_H), box_xy[c][2])
            /\ RLess(box_xy[c][2], Rat(c[1] + 1, GRID_H))

\* C10 as amended: the cell in row i and column j has offset (x = j, y = i)
\* and every decoded centre lies in its cell, borders included.
C10_CentreInsideCell ==
    pc # "Idle" =>
        \A c \in DOMAIN prediction :
            /\ c_xy[c] = <<c[2], c[1]>>
            /\ RLeq(Rat(c[2], GRID_W), box_xy[c][1])
            /\ RLeq(box_xy[c][1], Rat(c[2] + 1, GRID_W))
            /\ RLeq(Rat(c[1], GRID_H), box_xy[c][2])
            /\ RLeq(box_xy[c][2], Rat(c[1] + 1, GRID_H))

\* The geometry of a grid that is not square, with several anchors, is decoded.
C10_Witness ==
    /\ pc = "GeometryDecoded"
    /\ GRID_H >= 2
    /\ GRID_W >= 2
    /\ GRID_H # GRID_W
    /\ N_ANCHORS >= 2

====
